---- MODULE Spec2Model ----
(***************************************************************************)
(* A model of `resume`, the incremental multi-repository changelog tool.   *)
(*                                                                         *)
(* The specifications of this module share its variables:                  *)
(*   SpecWalk     one repository over successive runs: the remote's        *)
(*                history grows, the cached clone fetches its branches     *)
(*                and the branches are walked (main.rs, project.rs);       *)
(*   SpecExtract  one call of Project::extract_messages (project.rs);      *)
(*   SpecSnap     SnapshotBuilder (snapshots.rs);                          *)
(*   SpecHist     SnapshotHistory (snapshots.rs);                          *)
(*   SpecRun      run() in multi-project mode: state file, snapshot        *)
(*                reference, repository tasks, save and output (main.rs);  *)
(*   SpecPar      process_projects: worker tasks, the channel of progress  *)
(*                bars and the coordinator (main.rs);                      *)
(*   SpecParFair  SpecPar with every thread's steps weakly fair;           *)
(*   SpecLog      one ChangeLog and its bucket tree (changelog.rs);        *)
(*   SpecStream   two runs that push their Snapshot, over origins and      *)
(*                branch names of any length (snapshots.rs).               *)
(*                                                                         *)
(* Strings (origins, branch names, commit hashes, snapshot hashes) are     *)
(* sequences of bytes; a byte is a small natural number.  Option<T> is a   *)
(* sequence of length 0 (None) or 1 (Some).                                *)
(***************************************************************************)
EXTENDS Integers, Sequences, FiniteSets, TLC

\* ------------------------------------------------------------------ bounds

\* Most commits a repository ever holds (SpecWalk, SpecExtract).
MaxCommits == 3

\* Most task results handed to one SnapshotBuilder (SpecSnap).
MaxResults == 2

\* Most entries of a SnapshotHistory (SpecHist, SpecRun).
MaxHistory == 3

\* Most grouping fields of a ChangeLog (SpecLog).
MaxFields == 2

\* Most entries inserted into one ChangeLog (SpecLog).
MaxEntries == 3

\* Most configured repositories of one process_projects call (SpecPar).
MaxProjects == 2

\* Most threads of the pool that runs the repository tasks (SpecPar).
MaxThreads == 2

\* Most bytes of an origin or of a branch name (SpecStream).
MaxNameLen == 2

\* ---------------------------------------------------------- Option, strings

None == <<>>

Some(x) == <<x>>

IsSome(o) == Len(o) = 1

Unwrap(o) == o[1]

\* Ord for String: lexicographic on bytes, a proper prefix first.
RECURSIVE LexLess(_, _)
LexLess(a, b) ==
    IF a = <<>> THEN b # <<>>
    ELSE IF b = <<>> THEN FALSE
    ELSE IF a[1] # b[1] THEN a[1] < b[1]
    ELSE LexLess(Tail(a), Tail(b))

\* ----------------------------------------------------------------- BTreeMap
\* A BTreeMap<K, V> is the sequence of its <<key, value>> pairs in key order,
\* which is the order its iterator yields them in.

BTreeNew == <<>>

\* A map that keeps insertion order instead of key order.
BTreeInsertUnsorted(m, k, v) ==
    IF \E i \in 1..Len(m) : m[i][1] = k
    THEN [i \in 1..Len(m) |-> IF m[i][1] = k THEN <<k, v>> ELSE m[i]]
    ELSE Append(m, <<k, v>>)

RECURSIVE BTreeInsert(_, _, _)
BTreeInsert(m, k, v) ==
    IF m = <<>> THEN << <<k, v>> >>
    ELSE IF m[1][1] = k THEN << <<k, v>> >> \o Tail(m)
    ELSE IF LexLess(k, m[1][1]) THEN << <<k, v>> >> \o m
    ELSE << m[1] >> \o BTreeInsert(Tail(m), k, v)

RECURSIVE BTreeGet(_, _)
BTreeGet(m, k) ==
    IF m = <<>> THEN None
    ELSE IF m[1][1] = k THEN Some(m[1][2])
    ELSE BTreeGet(Tail(m), k)

BTreeKeys(m) == {m[i][1] : i \in 1..Len(m)}

BTreeValues(m) == {m[i][2] : i \in 1..Len(m)}

\* ------------------------------------------------------------ names, hashes

\* Branch names, as byte strings: "feature" sorts before "main".
BranchFeature == <<1>>

BranchMain == <<2>>

BranchNames == {BranchMain, BranchFeature}

\* HEAD of a bare clone is the remote's default branch.
HeadBranch == BranchMain

\* An Oid is a commit's number in the object database (0: no such ref).
NoOid == 0

\* CommitHash::from(oid) is oid.to_string(): the oid's hexadecimal form.  The
\* model's hexadecimal form of an oid is one digit.
OidToString(oid) == <<oid>>

\* Oid::from_str: None when the text is not the hexadecimal form of an oid.
OidFromStr(s) == IF Len(s) = 1 /\ s[1] \in 1..MaxCommits THEN Some(s[1]) ELSE None

\* ------------------------------------------------------ Conventional-Record
\* A raw commit message, by what the grammar makes of it: whether it matches
\* `type(scope)!: summary` at all, and the fields it then carries.

RawWip == [conventional |-> FALSE, ctype |-> "", scope |-> None, trailers |-> <<>>]

RawFeat == [conventional |-> TRUE, ctype |-> "feat", scope |-> None, trailers |-> <<>>]

\* CommitType::from_str: the nine known types, anything else is Other(s).
CommitTypeFromStr(s) ==
    CASE s = "build" -> [variant |-> "Build", other |-> ""]
      [] s = "ci" -> [variant |-> "ContinuousIntegration", other |-> ""]
      [] s = "docs" -> [variant |-> "Documentation", other |-> ""]
      [] s = "feat" -> [variant |-> "Feature", other |-> ""]
      [] s = "fix" -> [variant |-> "BugFix", other |-> ""]
      [] s = "perf" -> [variant |-> "Performance", other |-> ""]
      [] s = "refactor" -> [variant |-> "Refactoring", other |-> ""]
      [] s = "style" -> [variant |-> "Style", other |-> ""]
      [] s = "test" -> [variant |-> "Test", other |-> ""]
      [] OTHER -> [variant |-> "Other", other |-> s]

\* CommitType::as_str.
CommitTypeAsStr(t) ==
    CASE t.variant = "ContinuousIntegration" -> "ci"
      [] t.variant = "Build" -> "build"
      [] t.variant = "BugFix" -> "fix"
      [] t.variant = "Documentation" -> "docs"
      [] t.variant = "Feature" -> "feat"
      [] t.variant = "Performance" -> "perf"
      [] t.variant = "Refactoring" -> "refactor"
      [] t.variant = "Style" -> "style"
      [] t.variant = "Test" -> "test"
      [] OTHER -> t.other

\* raw_message.parse::<ConventionalMessage>(): Some(message) for Ok, None for Err.
ParseMessage(raw) ==
    IF raw.conventional
    THEN Some([ctype |-> CommitTypeFromStr(raw.ctype), scope |-> raw.scope,
               trailers |-> raw.trailers])
    ELSE None

\* Commit::message() of the commits of SpecWalk (None would be a message that
\* is not UTF-8).
WalkMessages == {Some(RawWip), Some(RawFeat)}

\* ------------------------------------------------------------- commit graph

\* Every commit reachable from a commit of S through parent links, S included.
RECURSIVE Reachable(_, _)
Reachable(par, S) ==
    LET next == S \cup UNION {par[c] : c \in S}
    IN IF next = S THEN S ELSE Reachable(par, next)

\* The commits of a set, newest first.  Commits are numbered in commit-time
\* order, and Revwalk's default sorting is reverse chronological.
RECURSIVE NewestFirst(_)
NewestFirst(S) ==
    IF S = {} THEN <<>>
    ELSE LET c == CHOOSE x \in S : \A y \in S : y <= x
         IN <<c>> \o NewestFirst(S \ {c})

\* Revwalk with one pushed commit and a set of hidden ones: what its iterator
\* yields.  A hidden commit hides itself and all its ancestors.
Revwalk(par, pushed, hidden) ==
    NewestFirst(Reachable(par, {pushed}) \ Reachable(par, hidden))

Range(seq) == {seq[i] : i \in 1..Len(seq)}

\* A filter that looks at the trailers' values only.
KeepsMessageAnyKey(t, m) ==
    IF IsSome(t)
    THEN \E i \in 1..Len(m.trailers) : m.trailers[i][2] = Unwrap(t)
    ELSE TRUE

\* Project::extract_messages: the kept messages in traversal order, each with
\* the commit it was parsed from, and the merge commits walked.
KeepsMessage(t, m) ==
    IF IsSome(t)
    THEN \E i \in 1..Len(m.trailers) :
            m.trailers[i][1] = "team" /\ m.trailers[i][2] = Unwrap(t)
    ELSE TRUE

\* A loop that ends at the first message that is missing or does not parse.
RECURSIVE ExtractLoopStopping(_, _, _)
ExtractLoopStopping(msgs, t, walk) ==
    IF walk = <<>> THEN <<>>
    ELSE LET commit == walk[1]
             raw == msgs[commit]
             parsed == IF IsSome(raw) THEN ParseMessage(Unwrap(raw)) ELSE None
         IN IF ~IsSome(parsed) THEN <<>>
            ELSE (IF KeepsMessage(t, Unwrap(parsed))
                  THEN << [commit |-> commit, message |-> Unwrap(parsed)] >>
                  ELSE <<>>) \o ExtractLoopStopping(msgs, t, Tail(walk))

RECURSIVE ExtractLoop(_, _, _)
ExtractLoop(msgs, t, walk) ==
    IF walk = <<>> THEN <<>>
    ELSE LET commit == walk[1]
             raw == msgs[commit]
             parsed == IF IsSome(raw) THEN ParseMessage(Unwrap(raw)) ELSE None
             kept == IF IsSome(parsed) /\ KeepsMessage(t, Unwrap(parsed))
                     THEN << [commit |-> commit, message |-> Unwrap(parsed)] >>
                     ELSE <<>>
         IN kept \o ExtractLoop(msgs, t, Tail(walk))

NewSentinels(par, walk) == {c \in Range(walk) : Cardinality(par[c]) > 1}

ExtractMessages(par, msgs, t, walk) ==
    [messages |-> ExtractLoop(msgs, t, walk), new_sentinels |-> NewSentinels(par, walk)]

\* ---------------------------------------------------------- snapshot store

\* Origins of the configured repositories, as byte strings.
Origins == { <<1>>, <<2>> }

\* blake3 over the bytes fed to the hasher.  The digest is identified with the
\* stream that produced it: two streams have one digest only if they are equal.
Blake3(bytes) == bytes

\* SnapshotHash::from_hash: the digest's hexadecimal form.
SnapshotHashFromHash(digest) == digest

\* SnapshotBuilder::build, inner loop: branch-name bytes then head bytes, for
\* every branch in the BTreeMap's order.
RECURSIVE BranchesBytes(_)
BranchesBytes(branches) ==
    IF branches = <<>> THEN <<>>
    ELSE branches[1][1] \o branches[1][2] \o BranchesBytes(Tail(branches))

\* SnapshotBuilder::build, outer loop: origin bytes then the branches' bytes,
\* for every repository in the BTreeMap's order.
RECURSIVE RepositoriesBytes(_)
RepositoriesBytes(repos) ==
    IF repos = <<>> THEN <<>>
    ELSE repos[1][1] \o BranchesBytes(repos[1][2]) \o RepositoriesBytes(Tail(repos))

\* SnapshotBuilder::build.
Build(repos) ==
    [hash |-> SnapshotHashFromHash(Blake3(RepositoriesBytes(repos))),
     repositories |-> repos]

\* Vec::last.
Last(snaps) == IF snaps = <<>> THEN None ELSE Some(snaps[Len(snaps)])

\* A push that never compares hashes.
PushAlways(snaps, snap) == Append(snaps, snap)

\* SnapshotHistory::push.
Push(snaps, snap) ==
    IF snaps = <<>> \/ snaps[Len(snaps)].hash # snap.hash
    THEN Append(snaps, snap)
    ELSE snaps

\* SnapshotHistory::get_by_hash: the most recent entry with that hash.
RECURSIVE GetByHash(_, _)
GetByHash(snaps, hash) ==
    IF snaps = <<>> THEN None
    ELSE IF snaps[Len(snaps)].hash = hash THEN Some(snaps[Len(snaps)])
    ELSE GetByHash(SubSeq(snaps, 1, Len(snaps) - 1), hash)

\* The width of usize.  It is 64 on the targets the tool is built for; the
\* model keeps a narrower word, wide enough that a wrapped index is beyond
\* every history of the model.
UsizeBits == 16

UsizeModulus == 2 ^ UsizeBits

\* SnapshotHistory::get_by_index: self.snapshots.get(len - index - 1) in usize
\* arithmetic.  A subtraction below zero panics when the build checks
\* overflow (debug) and wraps when it does not (release); Vec::get of a
\* position past the end is None.
GetByIndex(snaps, index, checks) ==
    LET exact == Len(snaps) - index - 1
        underflow == exact < 0
        position == exact % UsizeModulus
    IN IF underflow /\ checks
       THEN [panic |-> TRUE, underflow |-> TRUE, value |-> None]
       ELSE [panic |-> FALSE, underflow |-> underflow,
             value |-> IF position < Len(snaps) THEN Some(snaps[position + 1]) ELSE None]

\* ------------------------------------------------------------------- state

VARIABLES
    \* SpecWalk: the remote repository
    parents,        \* parents[c]: the set of parents of commit c (c = 1..Len)
    message,        \* message[c]: the raw commit message of commit c
    remote,         \* remote[b]: the head of branch b on origin
    \* SpecWalk: the cached bare clone
    cloned,         \* whether the cache folder holds the clone
    local,          \* local[b]: refs/heads/b in the clone, NoOid when absent
    \* SpecWalk: the Project and the worker's locals
    branches_name,  \* Project.branches_name, in configured order
    team,           \* Project.team: Option<String>
    snapshot,       \* Project.snapshot: Option<RepositorySnapshot>
    standalone,     \* TRUE while process_repository runs (single-repository mode)
    wpc,            \* where the run is: "idle", "fetch", "report", "done", "failed"
    idx,            \* index of the next branch of the running loop
    repo_snapshot,  \* the RepositorySnapshot the fetch loop fills
    sentinels,      \* report_branches' sentinels
    entries,        \* report_branches' entries: <<branch, commit>> in order
    walks           \* one record per build_walker call of the running run

walkVars == <<parents, message, remote, cloned, local, branches_name, team,
              snapshot, standalone, wpc, idx, repo_snapshot, sentinels, entries,
              walks>>

VARIABLES
    \* SpecSnap: one SnapshotBuilder and the results it is fed
    snap_input,     \* the task results: a set of [origin, branches]
    todo,           \* the results not yet handed to the builder
    cur,            \* Option: the RepositorySnapshot being filled
    builder,        \* SnapshotBuilder.repositories
    built           \* Option<Snapshot>: what build() returned

snapVars == <<snap_input, todo, cur, builder, built>>

VARIABLES
    \* SpecHist and SpecRun
    history,         \* SnapshotHistory.snapshots
    overflow_checks, \* the build profile: TRUE for debug, FALSE for release
    lookup           \* Option: the last query of the history and its result

histVars == <<history, overflow_checks, lookup>>

VARIABLES
    \* SpecRun: the files, the command line and run()'s locals
    state_file,     \* the state file on disk: [kind, snapshots]
    args,           \* the Projects subcommand: no_state, save_state, from_snapshot
    rpc,            \* where run() is: "exit" when no process runs
    prev,           \* the Option<Snapshot> handed to process_projects
    results,        \* results[i]: Option of the task result of project i
    processed,      \* Option of what process_projects returned
    output,         \* Option: the changelog printed on stdout
    result,         \* how run() ended: "none", "Ok", "panic" or an Error
    file_at_start,  \* the state file as the run found it
    loaded,         \* the history as the run loaded it
    writes          \* how many times the run rewrote the state file

runVars == <<state_file, args, rpc, prev, results, processed, output, result,
             file_at_start, loaded, writes>>

VARIABLES
    \* SpecPar: process_projects, its worker tasks and its coordinator
    par_projects,   \* config.projects: the origins, in configured order
    par_threads,    \* the size of the thread pool that runs the tasks
    par_task,       \* par_task[i]: what the task of project i returns
    wpos,           \* wpos[i]: the step of WorkerSteps task i is at (0: queued)
    chan,           \* the channel of progress handles: projects, oldest first
    bars,           \* the handles the coordinator added to the MultiProgress
    cpc,            \* the coordinator: "take", "render", "join", "aggregate", "fin"
    slots,          \* slots[i]: Option of the result task i returned
    finished,       \* the projects in the order their tasks returned
    par_return,     \* Option of what process_projects returned
    bar_status,     \* bar_status[i]: "none", "live", "finished" or "dropped"
    bar_done        \* the bars the MultiProgress was told are finished

parVars == <<par_projects, par_threads, par_task, wpos, chan, bars, cpc, slots,
             finished, par_return, bar_status, bar_done>>

VARIABLES
    \* SpecLog: one ChangeLog
    group_by,       \* ChangeLog.group_by: the grouping fields, in order
    change_log,     \* ChangeLog.index: the HierarchicalBuckets tree
    log_inserted,   \* the entries insert was called with, in call order
    log_err         \* the first error an insert returned, "none" if none did

logVars == <<group_by, change_log, log_inserted, log_err>>

VARIABLES
    \* SpecExtract: one call of Project::extract_messages
    ex_parents,     \* the commit graph of the repository
    ex_message,     \* ex_message[c]: Commit::message() of commit c
    ex_team,        \* Project.team
    ex_hidden,      \* the sentinels the walker was built with
    ex_out          \* Option of what extract_messages returned

exVars == <<ex_parents, ex_message, ex_team, ex_hidden, ex_out>>

vars == <<walkVars, snapVars, histVars, runVars, parVars, logVars, exVars>>

notWalk == <<snapVars, histVars, runVars, parVars, logVars, exVars>>

notSnap == <<walkVars, histVars, runVars, parVars, logVars, exVars>>

notHist == <<walkVars, snapVars, runVars, parVars, logVars, exVars>>

notRun == <<walkVars, snapVars, lookup, parVars, logVars, exVars>>

notPar == <<walkVars, snapVars, histVars, runVars, logVars, exVars>>

notLog == <<walkVars, snapVars, histVars, runVars, parVars, exVars>>

notExtract == <<walkVars, snapVars, histVars, runVars, parVars, logVars>>

WalkOff ==
    /\ parents = << {} >> /\ message = << None >>
    /\ remote = [b \in BranchNames |-> 1]
    /\ cloned = FALSE /\ local = [b \in BranchNames |-> NoOid]
    /\ branches_name = <<BranchMain>> /\ team = None /\ snapshot = None
    /\ standalone = FALSE
    /\ wpc = "off" /\ idx = 0 /\ repo_snapshot = <<>>
    /\ sentinels = {} /\ entries = <<>> /\ walks = <<>>

SnapOff ==
    /\ snap_input = {} /\ todo = {} /\ cur = None /\ builder = <<>> /\ built = None

HistOff ==
    /\ history = <<>> /\ overflow_checks = FALSE /\ lookup = None

FileAbsent == [kind |-> "absent", snapshots |-> <<>>]

NoArgs == [no_state |-> FALSE, save_state |-> FALSE, from_snapshot |-> None]

RunOff ==
    /\ state_file = FileAbsent /\ args = NoArgs /\ rpc = "off" /\ prev = None
    /\ results = <<>> /\ processed = None /\ output = None /\ result = "none"
    /\ file_at_start = FileAbsent /\ loaded = <<>> /\ writes = 0

ParOff ==
    /\ par_projects = <<>> /\ par_threads = 1 /\ par_task = <<>> /\ wpos = <<>>
    /\ chan = <<>> /\ bars = <<>> /\ cpc = "off" /\ slots = <<>>
    /\ finished = <<>> /\ par_return = None /\ bar_status = <<>> /\ bar_done = {}

ExtractOff ==
    /\ ex_parents = <<>> /\ ex_message = <<>> /\ ex_team = None
    /\ ex_hidden = {} /\ ex_out = None

LogOff ==
    /\ group_by = <<>> /\ change_log = <<>> /\ log_inserted = <<>> /\ log_err = "off"

\* ================================================================ SpecWalk
\* One configured repository.  Between runs the remote gains commits; a run
\* opens or clones the cache, fetches every configured branch, then walks the
\* branches in report_branches.

\* The configured branch lists of the project.
BranchConfigs ==
    { <<BranchMain>>, <<BranchFeature>>,
      <<BranchMain, BranchFeature>>, <<BranchFeature, BranchMain>> }

WalkIdle ==
    /\ wpc = "idle" /\ idx = 0 /\ repo_snapshot = BTreeNew
    /\ sentinels = {} /\ entries = <<>> /\ walks = <<>>

InitWalk ==
    /\ parents = << {} >>
    /\ message \in {<<m>> : m \in WalkMessages}
    /\ remote = [b \in BranchNames |-> 1]
    /\ cloned = FALSE
    /\ local = [b \in BranchNames |-> NoOid]
    /\ branches_name \in BranchConfigs
    /\ team = None
    /\ snapshot = None
    /\ standalone = FALSE
    /\ WalkIdle
    /\ SnapOff /\ HistOff /\ RunOff /\ ParOff /\ LogOff /\ ExtractOff

\* --- the remote, between runs

\* Someone commits on branch b of the remote.
RemoteCommit(b, raw) ==
    /\ wpc = "idle"
    /\ Len(parents) < MaxCommits
    /\ parents' = Append(parents, {remote[b]})
    /\ message' = Append(message, raw)
    /\ remote' = [remote EXCEPT ![b] = Len(parents) + 1]
    /\ UNCHANGED <<cloned, local, branches_name, team, snapshot, standalone, wpc,
                   idx, repo_snapshot, sentinels, entries, walks>>
    /\ UNCHANGED notWalk

\* Someone merges branch other into branch b with a merge commit.
RemoteMerge(b, other, raw) ==
    /\ wpc = "idle"
    /\ Len(parents) < MaxCommits
    /\ remote[other] \notin Reachable(parents, {remote[b]})
    /\ parents' = Append(parents, {remote[b], remote[other]})
    /\ message' = Append(message, raw)
    /\ remote' = [remote EXCEPT ![b] = Len(parents) + 1]
    /\ UNCHANGED <<cloned, local, branches_name, team, snapshot, standalone, wpc,
                   idx, repo_snapshot, sentinels, entries, walks>>
    /\ UNCHANGED notWalk

\* Someone fast-forwards branch b to the head of branch other.
RemoteFastForward(b, other) ==
    /\ wpc = "idle"
    /\ remote[b] # remote[other]
    /\ remote[b] \in Reachable(parents, {remote[other]})
    /\ remote' = [remote EXCEPT ![b] = remote[other]]
    /\ UNCHANGED <<parents, message, cloned, local, branches_name, team,
                   snapshot, standalone, wpc, idx, repo_snapshot, sentinels,
                   entries, walks>>
    /\ UNCHANGED notWalk

\* --- the worker closure of process_projects, for this repository

\* Project::from_cache, else Project::from_remote: a bare clone has one local
\* branch, the remote's default branch.  project.snapshot is the previous
\* Snapshot's entry for this origin.
OpenOrClone ==
    /\ wpc = "idle"
    /\ cloned' = TRUE
    /\ local' = IF cloned THEN local
                ELSE [b \in BranchNames |-> IF b = HeadBranch THEN remote[b] ELSE NoOid]
    /\ wpc' = "fetch"
    /\ idx' = 1
    /\ repo_snapshot' = BTreeNew
    /\ UNCHANGED <<parents, message, remote, branches_name, team, snapshot,
                   standalone, sentinels, entries, walks>>
    /\ UNCHANGED notWalk

\* Project::get_or_create_branch: the branch's ref as looked up, or as created
\* on the commit HEAD points to.
GetOrCreateBranch(refs, b) == IF refs[b] # NoOid THEN refs[b] ELSE refs[HeadBranch]

\* Project::fetch_branch: the refs after the fetch, and the hash returned.
\* `branch` is looked up before remote.fetch(); a git2 Reference holds the
\* target it had when it was looked up, so branch.get().target() is the
\* commit the ref pointed to before the fetch moved it.
FetchBranchHash(refs, rem, b) == OidToString(GetOrCreateBranch(refs, b))

FetchBranchRefs(refs, rem, b) == [refs EXCEPT ![b] = rem[b]]

\* One turn of the fetch loop: fetch_branch, then repo_snapshot.insert.
FetchBranch ==
    /\ wpc = "fetch"
    /\ LET b == branches_name[idx]
       IN /\ local' = FetchBranchRefs(local, remote, b)
          /\ repo_snapshot' = BTreeInsert(repo_snapshot, b, FetchBranchHash(local, remote, b))
    /\ IF idx < Len(branches_name)
       THEN /\ idx' = idx + 1
            /\ UNCHANGED <<wpc, sentinels, entries, walks>>
       ELSE \* report_branches is entered: Sentinels::new(), Vec::new()
            /\ wpc' = "report"
            /\ idx' = 1
            /\ sentinels' = {}
            /\ entries' = <<>>
            /\ walks' = <<>>
    /\ UNCHANGED <<parents, message, remote, cloned, branches_name, team, snapshot,
                   standalone>>
    /\ UNCHANGED notWalk

\* report_branches: the sentinels the walk of branch b is built with.
SeedSentinels(sent, snap, b) ==
    IF IsSome(snap) /\ IsSome(BTreeGet(Unwrap(snap), b))
    THEN sent \cup {Unwrap(OidFromStr(Unwrap(BTreeGet(Unwrap(snap), b))))}
    ELSE sent

\* Project.snapshot as the run's loop sees it: from_standalone_repository
\* leaves it None, the worker closure sets it from the previous Snapshot.
ProjectSnapshot(alone, snap) == IF alone THEN None ELSE snap

\* A loop that keeps only the sentinels of the branch it has just walked.
ExtendSentinelsReplacing(sent, new) == new

\* A loop that forgets what a walk surfaced.
ExtendSentinelsDropping(sent, new) == sent

\* sentinels.extend(new_sentinels).
ExtendSentinels(sent, new) == sent \cup new

\* process_repository starts on the repository at the given path, here the
\* cached clone: Sentinels::new(), ChangeLog::new.
StandaloneStart ==
    /\ wpc = "idle"
    /\ cloned
    /\ standalone' = TRUE
    /\ wpc' = "report"
    /\ idx' = 1
    /\ sentinels' = {}
    /\ entries' = <<>>
    /\ walks' = <<>>
    /\ UNCHANGED <<parents, message, remote, cloned, local, branches_name, team,
                   snapshot, repo_snapshot>>
    /\ UNCHANGED notWalk

\* One turn of the loop of report_branches, or of process_repository: the
\* previous head is inserted, the walker built, the messages extracted, the
\* entries and the sentinels extended.  build_walker fails on a branch the
\* repository does not hold, and the run ends on that error.
ReportBranch ==
    /\ wpc = "report"
    /\ LET b == branches_name[idx]
           seeded == SeedSentinels(sentinels, ProjectSnapshot(standalone, snapshot), b)
           walker == Revwalk(parents, local[b], seeded)
           got == ExtractMessages(parents, message, team, walker)
       IN IF local[b] = NoOid
          THEN /\ wpc' = "failed"
               /\ sentinels' = seeded
               /\ UNCHANGED <<idx, entries, walks>>
          ELSE /\ entries' = entries \o
                     [i \in 1..Len(got.messages) |->
                         [branch |-> b, commit |-> got.messages[i].commit,
                          message |-> got.messages[i].message]]
               /\ sentinels' = ExtendSentinels(seeded, got.new_sentinels)
               /\ walks' = Append(walks, [branch |-> b, pushed |-> local[b],
                                          hidden |-> seeded, walked |-> walker,
                                          new_sentinels |-> got.new_sentinels])
               /\ IF idx < Len(branches_name)
                  THEN idx' = idx + 1 /\ UNCHANGED wpc
                  ELSE idx' = 0 /\ wpc' = "done"
    /\ UNCHANGED <<parents, message, remote, cloned, local, branches_name, team,
                   snapshot, standalone, repo_snapshot>>
    /\ UNCHANGED notWalk

\* The run ends.  A multi-project run that succeeded with save_state makes
\* its Snapshot the history's last entry, so the next run's project.snapshot
\* is this run's repo_snapshot; any other run leaves the history as it was.
FinishRun(save_state) ==
    /\ wpc \in {"done", "failed"}
    /\ snapshot' = IF save_state /\ wpc = "done" /\ ~standalone
                   THEN Some(repo_snapshot) ELSE snapshot
    /\ standalone' = FALSE
    /\ wpc' = "idle"
    /\ idx' = 0
    /\ repo_snapshot' = BTreeNew
    /\ sentinels' = {}
    /\ entries' = <<>>
    /\ walks' = <<>>
    /\ UNCHANGED <<parents, message, remote, cloned, local, branches_name, team>>
    /\ UNCHANGED notWalk

NextWalk ==
    \/ \E b \in BranchNames, raw \in WalkMessages : RemoteCommit(b, raw)
    \/ \E b \in BranchNames, other \in BranchNames, raw \in WalkMessages :
          RemoteMerge(b, other, raw)
    \/ \E b \in BranchNames, other \in BranchNames : RemoteFastForward(b, other)
    \/ OpenOrClone
    \/ FetchBranch
    \/ StandaloneStart
    \/ ReportBranch
    \/ \E save_state \in BOOLEAN : FinishRun(save_state)

SpecWalk == InitWalk /\ [][NextWalk]_vars

\* ------------------------------------------------------- claims on SpecWalk

\* How many entries of the running run were parsed from commit c.
TimesEmitted(c) == Cardinality({i \in 1..Len(entries) : entries[i].commit = c})

\* Commits reachable from `from` along paths that avoid commit m.
ReachableAvoiding(par, from, m) ==
    IF from = m THEN {}
    ELSE Reachable([c \in 1..Len(par) |-> par[c] \ {m}], {from})

\* Commit m is a merge commit on main that merged feature: feature's head is
\* reachable from m, and m is reachable from main's head.
MergedInto(m) ==
    /\ m \in Reachable(parents, {local[BranchMain]})
    /\ Cardinality(parents[m]) > 1
    /\ local[BranchFeature] # NoOid
    /\ local[BranchFeature] # m
    /\ local[BranchFeature] \in Reachable(parents, {m})

\* Commit f is on feature, reachable from main only through the merge m, and
\* its message is one the run keeps.
OnlyThroughMerge(f, m) ==
    /\ MergedInto(m)
    /\ f \in Reachable(parents, {local[BranchFeature]})
    /\ f \notin ReachableAvoiding(parents, local[BranchMain], m)
    /\ IsSome(message[f]) /\ IsSome(ParseMessage(Unwrap(message[f])))

BothConfigured == Range(branches_name) = {BranchMain, BranchFeature}

\* C1: with main and feature both configured (either order) and no previous
\* snapshot, a commit of feature that main reaches only through the merge
\* commit M is emitted exactly once by the finished run.
C1_MergedCommitEmittedOnce ==
    (wpc = "done" /\ snapshot = None /\ BothConfigured) =>
        \A f \in 1..Len(parents), m \in 1..Len(parents) :
            OnlyThroughMerge(f, m) => TimesEmitted(f) = 1

\* C1, the case: a finished run of main then feature over a merged feature.
C1_Witness ==
    /\ wpc = "done" /\ snapshot = None
    /\ branches_name = <<BranchMain, BranchFeature>>
    /\ \E f \in 1..Len(parents), m \in 1..Len(parents) :
          OnlyThroughMerge(f, m) /\ TimesEmitted(f) = 1

\* The heads the previous Snapshot records for this repository.
RecordedHeads ==
    IF IsSome(snapshot)
    THEN {Unwrap(OidFromStr(h)) : h \in BTreeValues(Unwrap(snapshot))}
    ELSE {}

\* C2: a run that starts from the Snapshot of a completed run emits no commit
\* reachable from a head that Snapshot records for the repository.
C2_NoRecordedCommitEmitted ==
    ~standalone =>
    \A i \in 1..Len(entries) :
        entries[i].commit \notin Reachable(parents, RecordedHeads)

\* C2, the case: a run from a previous Snapshot has emitted something.
C2_Witness == IsSome(snapshot) /\ ~standalone /\ wpc = "done" /\ entries # <<>>

\* C3: with a previous Snapshot, the sentinels the first configured branch is
\* walked with hold every head the Snapshot records for the repository.
C3_FirstWalkSeededWithAllHeads ==
    (IsSome(snapshot) /\ ~standalone /\ Len(walks) >= 1) =>
        RecordedHeads \subseteq walks[1].hidden

\* C3, the case: the first walk of a run whose previous Snapshot records two
\* branches.
C3_Witness ==
    /\ IsSome(snapshot) /\ ~standalone /\ Len(Unwrap(snapshot)) = 2
    /\ Len(walks) >= 1

\* ------------------------------------------- claims on SpecWalk, continued

\* C15: while a repository run walks its branches no step removes a
\* sentinel: the set after a step holds the set before it, and the set a
\* walk is built with holds the set the walk before was built with and what
\* that walk surfaced.  A run starts its loop with the empty set.
C15_SentinelsOnlyGrow ==
    [][ /\ (wpc = "report" => sentinels \subseteq sentinels')
        /\ (wpc # "report" /\ wpc' = "report" => sentinels' = {})
        /\ \A k \in 2..Len(walks') :
              walks'[k - 1].hidden \cup walks'[k - 1].new_sentinels
                  \subseteq walks'[k].hidden ]_vars

\* C15, the case: the second walk of a run is built with a recorded head
\* and with a merge commit the first walk surfaced.
C15_Witness ==
    /\ Len(walks) = 2
    /\ walks[1].new_sentinels # {}
    /\ walks[1].hidden # {}
    /\ walks[1].new_sentinels \cap walks[1].hidden = {}
    /\ walks[1].hidden \cup walks[1].new_sentinels \subseteq sentinels

\* C15, the single-repository case: process_repository has walked two
\* branches and the first walk surfaced a merge commit.
C15_WitnessStandalone ==
    /\ standalone /\ Len(walks) = 2 /\ walks[1].new_sentinels # {}

\* The position of a branch in the configured list.
BranchPosition(b) == CHOOSE k \in 1..Len(branches_name) : branches_name[k] = b

\* The merge commits the walks before the k-th surfaced.
SurfacedBefore(k) == UNION {walks[j].new_sentinels : j \in 1..(k - 1)}

\* C16: the branches are walked in configured order, the walk of a branch
\* hides every merge commit the walks before it surfaced, and no entry of a
\* branch is a merge commit surfaced on an earlier branch or an ancestor of
\* one; the entries follow the configured order of the branches.
C16_LaterWalksHideEarlierMerges ==
    /\ \A k \in 1..Len(walks) :
          /\ walks[k].branch = branches_name[k]
          /\ SurfacedBefore(k) \subseteq walks[k].hidden
          /\ Range(walks[k].walked) \cap Reachable(parents, SurfacedBefore(k)) = {}
    /\ \A i \in 1..Len(entries) :
          /\ BranchPosition(entries[i].branch) <= Len(walks)
          /\ entries[i].commit \notin
                Reachable(parents, SurfacedBefore(BranchPosition(entries[i].branch)))
          /\ \A j \in 1..(i - 1) :
                BranchPosition(entries[j].branch) <= BranchPosition(entries[i].branch)

\* C16, the case: the first walk surfaced a merge commit, and the head of
\* the second branch is that merge or one of its ancestors.
C16_Witness ==
    /\ Len(walks) = 2
    /\ walks[1].new_sentinels # {}
    /\ walks[2].pushed \in Reachable(parents, walks[1].new_sentinels)
    /\ entries # <<>>

\* C17: the head a run records for a branch in its RepositorySnapshot is the
\* commit the branch points to after the run's fetch, the commit the walk of
\* that branch starts from.
C17_RecordedHeadIsFetchedHead ==
    /\ (~standalone /\ wpc \in {"report", "done"}) =>
          \A k \in 1..Len(branches_name) :
              BTreeGet(repo_snapshot, branches_name[k])
                  = Some(OidToString(local[branches_name[k]]))
    /\ ~standalone =>
          \A k \in 1..Len(walks) :
              BTreeGet(repo_snapshot, walks[k].branch)
                  = Some(OidToString(walks[k].pushed))

\* C17, the case: a run has fetched a branch the remote moved since the
\* last run.
C17_Witness ==
    /\ ~standalone /\ wpc \in {"report", "done"}
    /\ \E b \in Range(branches_name) :
          /\ IsSome(snapshot) /\ IsSome(BTreeGet(Unwrap(snapshot), b))
          /\ Unwrap(BTreeGet(Unwrap(snapshot), b)) # OidToString(local[b])

\* ================================================================ SpecSnap
\* One SnapshotBuilder.  The task results reach it in any order, and the
\* branches of each RepositorySnapshot were inserted in any order.

\* The heads a RepositorySnapshot may record.
SnapHeads == {OidToString(1), OidToString(2)}

\* The RepositorySnapshot contents a task may return: for each branch of a
\* non-empty set of branches, a head.
SnapBranchSets ==
    UNION { [bs -> SnapHeads] : bs \in (SUBSET BranchNames) \ {{}} }

Pairs(f) == {<<b, f[b]>> : b \in DOMAIN f}

SnapResults == {[origin |-> o, branches |-> Pairs(f)] : o \in Origins, f \in SnapBranchSets}

InitSnap ==
    /\ snap_input \in {rs \in SUBSET SnapResults : Cardinality(rs) <= MaxResults}
    /\ todo = snap_input
    /\ cur = None
    /\ builder = BTreeNew
    /\ built = None
    /\ WalkOff /\ HistOff /\ RunOff /\ ParOff /\ LogOff /\ ExtractOff

\* RepositorySnapshot::new() for the next result.
NewRepositorySnapshot(r) ==
    /\ built = None /\ cur = None
    /\ r \in todo
    /\ todo' = todo \ {r}
    /\ cur' = Some([origin |-> r.origin, left |-> r.branches, snap |-> BTreeNew])
    /\ UNCHANGED <<snap_input, builder, built>>
    /\ UNCHANGED notSnap

\* repo_snapshot.insert(branch_name, hash).
InsertBranch(pair) ==
    /\ IsSome(cur)
    /\ pair \in Unwrap(cur).left
    /\ cur' = Some([Unwrap(cur) EXCEPT
                      !.left = @ \ {pair},
                      !.snap = BTreeInsert(@, pair[1], pair[2])])
    /\ UNCHANGED <<snap_input, todo, builder, built>>
    /\ UNCHANGED notSnap

\* SnapshotBuilder::add_repository_snapshot.
AddRepositorySnapshot ==
    /\ IsSome(cur)
    /\ Unwrap(cur).left = {}
    /\ builder' = BTreeInsert(builder, Unwrap(cur).origin, Unwrap(cur).snap)
    /\ cur' = None
    /\ UNCHANGED <<snap_input, todo, built>>
    /\ UNCHANGED notSnap

\* SnapshotBuilder::build, once every result is in.
BuildSnapshot ==
    /\ built = None /\ cur = None /\ todo = {}
    /\ built' = Some(Build(builder))
    /\ UNCHANGED <<snap_input, todo, cur, builder>>
    /\ UNCHANGED notSnap

NextSnap ==
    \/ \E r \in SnapResults : NewRepositorySnapshot(r)
    \/ \E pair \in BranchNames \X SnapHeads : InsertBranch(pair)
    \/ AddRepositorySnapshot
    \/ BuildSnapshot

SpecSnap == InitSnap /\ [][NextSnap]_vars

\* ------------------------------------------------------- claims on SpecSnap

\* The results one by one in a fixed order, branches in a fixed order.
RECURSIVE InsertPairs(_, _)
InsertPairs(m, pairs) ==
    IF pairs = {} THEN m
    ELSE LET pair == CHOOSE x \in pairs : TRUE
         IN InsertPairs(BTreeInsert(m, pair[1], pair[2]), pairs \ {pair})

RECURSIVE AddResults(_, _)
AddResults(m, rs) ==
    IF rs = {} THEN m
    ELSE LET r == CHOOSE x \in rs : TRUE
         IN AddResults(BTreeInsert(m, r.origin, InsertPairs(BTreeNew, r.branches)), rs \ {r})

DistinctOrigins(rs) == \A r1 \in rs, r2 \in rs : r1.origin = r2.origin => r1 = r2

\* C4: for results with distinct origins, build() returns the same Snapshot,
\* hash included, whatever the order the results were added in and the order
\* the branches were inserted in.
C4_BuildOrderIndependent ==
    (IsSome(built) /\ DistinctOrigins(snap_input)) =>
        Unwrap(built) = Build(AddResults(BTreeNew, snap_input))

\* C4, the case: two repositories, one of them with two branches, are built.
C4_Witness ==
    /\ IsSome(built)
    /\ DistinctOrigins(snap_input)
    /\ Cardinality(snap_input) = 2
    /\ \E r \in snap_input : Cardinality(r.branches) = 2

\* ================================================================ SpecHist
\* One SnapshotHistory, created empty, with pushes and lookups.

\* The Snapshots pushed: what build() makes of each set of task results.
HistSnapshots ==
    {Build(AddResults(BTreeNew, rs)) :
        rs \in {{}} \cup {{[origin |-> <<1>>, branches |-> {<<BranchMain, h>>}]} : h \in SnapHeads}}

InitHist ==
    /\ history = <<>>
    /\ overflow_checks \in BOOLEAN
    /\ lookup = None
    /\ WalkOff /\ SnapOff /\ RunOff /\ ParOff /\ LogOff /\ ExtractOff

\* history.push(snapshot)
HistPush(snap) ==
    /\ Len(Push(history, snap)) <= MaxHistory
    /\ history' = Push(history, snap)
    /\ lookup' = Some([op |-> "push", arg |-> snap, before |-> history])
    /\ UNCHANGED overflow_checks
    /\ UNCHANGED notHist

\* history.get_by_index(index)
HistGetByIndex(index) ==
    /\ lookup' = Some([op |-> "get_by_index", arg |-> index,
                       result |-> GetByIndex(history, index, overflow_checks)])
    /\ UNCHANGED <<history, overflow_checks>>
    /\ UNCHANGED notHist

\* history.get_by_hash(hash)
HistGetByHash(hash) ==
    /\ lookup' = Some([op |-> "get_by_hash", arg |-> hash,
                       result |-> GetByHash(history, hash)])
    /\ UNCHANGED <<history, overflow_checks>>
    /\ UNCHANGED notHist

NextHist ==
    \/ \E snap \in HistSnapshots : HistPush(snap)
    \/ \E index \in 0..(MaxHistory + 1) : HistGetByIndex(index)
    \/ \E snap \in HistSnapshots : HistGetByHash(snap.hash)

SpecHist == InitHist /\ [][NextHist]_vars

\* ------------------------------------------------------- claims on SpecHist

\* C5: from an empty history, no two consecutive entries share a hash; a push
\* of the last entry's hash leaves the history as it was, and any other push
\* appends the Snapshot as the one new entry, the earlier entries unchanged.
C5_PushDeduplicates ==
    /\ \A i \in 1..(Len(history) - 1) : history[i].hash # history[i + 1].hash
    /\ (IsSome(lookup) /\ Unwrap(lookup).op = "push") =>
          LET before == Unwrap(lookup).before
              snap == Unwrap(lookup).arg
          IN IF before # <<>> /\ before[Len(before)].hash = snap.hash
             THEN history = before
             ELSE /\ Len(history) = Len(before) + 1
                  /\ history[Len(history)] = snap
                  /\ SubSeq(history, 1, Len(before)) = before

\* C5, the case: a push of the last entry's hash onto a history of two.
C5_Witness ==
    /\ IsSome(lookup) /\ Unwrap(lookup).op = "push"
    /\ Len(history) = 2
    /\ Unwrap(lookup).before = history
    /\ Unwrap(lookup).arg.hash = history[2].hash

IsIndexLookup == IsSome(lookup) /\ Unwrap(lookup).op = "get_by_index"

\* C8: get_by_index(i) on n entries is the entry at position n-1-i when
\* i < n, and for i >= n (n = 0 included) is None, reached without a panic and
\* without an arithmetic underflow.
C8_GetByIndexTotal ==
    IsIndexLookup =>
        LET i == Unwrap(lookup).arg
            n == Len(history)
            r == Unwrap(lookup).result
        IN IF i < n
           THEN r = [panic |-> FALSE, underflow |-> FALSE,
                     value |-> Some(history[(n - 1 - i) + 1])]
           ELSE r = [panic |-> FALSE, underflow |-> FALSE, value |-> None]

\* C8, in range: the entry at n-1-i, index 0 being the last pushed.
C8_InRange ==
    IsIndexLookup =>
        LET i == Unwrap(lookup).arg
            n == Len(history)
            r == Unwrap(lookup).result
        IN i < n => r = [panic |-> FALSE, underflow |-> FALSE,
                         value |-> Some(history[(n - 1 - i) + 1])]

\* C8, the case: an index past the end.
C8_Witness ==
    IsIndexLookup /\ Unwrap(lookup).arg >= Len(history) /\ Len(history) = 2

\* ================================================================= SpecRun
\* run() in multi-project mode, one process after the other over one state
\* file.  The repository tasks finish in any order, each with a result or an
\* error; what a task does inside is SpecWalk's.

\* config.projects: the origins of the configured repositories, in order.
RunProjects == << <<1>>, <<2>> >>

\* SnapshotHistory::from_file.
FromFile(file) ==
    IF file.kind = "absent" THEN [ok |-> TRUE, err |-> "none", value |-> <<>>]
    ELSE IF file.kind = "valid" THEN [ok |-> TRUE, err |-> "none", value |-> file.snapshots]
    ELSE [ok |-> FALSE, err |-> "Configuration", value |-> <<>>]

\* run(): SnapshotHistory::from_file(..).unwrap_or_else(|_| SnapshotHistory::new()).
LoadHistory(file) ==
    [ok |-> TRUE, err |-> "none",
     value |-> IF FromFile(file).ok THEN FromFile(file).value ELSE <<>>]

\* snapshot_ref.parse::<usize>(): Ok for a decimal numeral.
ParseUsize(ref) == IF ref.kind = "index" THEN Some(ref.index) ELSE None

\* snapshot_ref.parse::<SnapshotHash>(): Ok for every text.
ParseSnapshotHash(ref) == Some(ref.text)

Selected(snap) == [outcome |-> "ok", snapshot |-> snap]

NotSelected(how) == [outcome |-> how, snapshot |-> None]

\* run(): the previous Snapshot the run starts from.
SelectSnapshot(a, hist, checks) ==
    IF a.no_state THEN Selected(None)
    ELSE IF IsSome(a.from_snapshot)
    THEN LET ref == Unwrap(a.from_snapshot)
             byIndex == GetByIndex(hist, Unwrap(ParseUsize(ref)), checks)
             found == IF IsSome(ParseUsize(ref)) THEN byIndex.value
                      ELSE GetByHash(hist, Unwrap(ParseSnapshotHash(ref)))
         IN IF IsSome(ParseUsize(ref)) /\ byIndex.panic THEN NotSelected("panic")
            ELSE IF ~IsSome(ParseUsize(ref)) /\ ~IsSome(ParseSnapshotHash(ref))
            THEN NotSelected("Err:InvalidSnapshotRef")
            ELSE IF found = None THEN NotSelected("Err:SnapshotDoesntExist")
            ELSE Selected(found)
    ELSE Selected(Last(hist))

\* What a repository task returns.
TaskOk(origin, change_sets, head) ==
    [ok |-> TRUE, err |-> "none", origin |-> origin, change_sets |-> change_sets,
     repo_snapshot |-> BTreeInsert(BTreeNew, BranchMain, head)]

TaskErr(origin) ==
    [ok |-> FALSE, err |-> "Err:Git", origin |-> origin, change_sets |-> <<>>,
     repo_snapshot |-> BTreeNew]

TaskChangeSets(origin) == { << [origin |-> origin, branch |-> BranchMain] >> }

TaskResults(origin) ==
    {TaskOk(origin, cs, h) : cs \in TaskChangeSets(origin), h \in SnapHeads}
        \cup {TaskErr(origin)}

\* An aggregation that drops the failed tasks.
RECURSIVE AggregateSkipping(_, _, _)
AggregateSkipping(rs, bld, all) ==
    IF rs = <<>>
    THEN [ok |-> TRUE, err |-> "none", failed |-> <<>>, entries |-> all,
          snapshot |-> Some(Build(bld))]
    ELSE IF ~rs[1].ok THEN AggregateSkipping(Tail(rs), bld, all)
    ELSE AggregateSkipping(Tail(rs),
                           BTreeInsert(bld, rs[1].origin, rs[1].repo_snapshot),
                           all \o rs[1].change_sets)

\* process_projects, after the join: the first error in configured order, or
\* every change set and the built Snapshot.
RECURSIVE Aggregate(_, _, _)
Aggregate(rs, bld, all) ==
    IF rs = <<>>
    THEN [ok |-> TRUE, err |-> "none", failed |-> <<>>, entries |-> all,
          snapshot |-> Some(Build(bld))]
    ELSE IF ~rs[1].ok
    THEN [ok |-> FALSE, err |-> rs[1].err, failed |-> rs[1].origin, entries |-> <<>>,
          snapshot |-> None]
    ELSE Aggregate(Tail(rs),
                   BTreeInsert(bld, rs[1].origin, rs[1].repo_snapshot),
                   all \o rs[1].change_sets)

\* A run that saves whatever the command line says.
SavesStateAlways(a) == TRUE

\* run(): if subcmd.save_state.
SavesState(a) == a.save_state

\* SnapshotHistory::to_file: File::create, then the whole history is written.
ToFile(file, hist, created) ==
    IF created THEN [kind |-> "valid", snapshots |-> hist] ELSE file

\* The snapshot references of the command line.
RunRefs ==
    {[kind |-> "index", index |-> i, text |-> <<>>] : i \in 0..MaxHistory}
        \cup {[kind |-> "hash", index |-> 0, text |-> h] :
                h \in { Build(BTreeNew).hash,
                        Build(BTreeInsert(BTreeNew, <<1>>,
                                BTreeInsert(BTreeNew, BranchMain, OidToString(1)))).hash }}

RunArgs ==
    [no_state : BOOLEAN, save_state : BOOLEAN,
     from_snapshot : {None} \cup {Some(ref) : ref \in RunRefs}]

InitRun ==
    /\ state_file \in {FileAbsent, [kind |-> "malformed", snapshots |-> <<>>]}
    /\ args = NoArgs
    /\ rpc = "exit"
    /\ prev = None
    /\ results = <<>>
    /\ processed = None
    /\ output = None
    /\ result = "none"
    /\ file_at_start = state_file
    /\ loaded = <<>>
    /\ writes = 0
    /\ history = <<>>
    /\ overflow_checks \in BOOLEAN
    /\ lookup = None
    /\ WalkOff /\ SnapOff /\ ParOff /\ LogOff /\ ExtractOff

\* A process starts: Command::parse, Configuration::from_file, and the
\* history is loaded.  The state file holds fewer than MaxHistory entries.
RunStart(a, config_ok) ==
    /\ rpc = "exit"
    /\ Len(state_file.snapshots) < MaxHistory
    /\ args' = a
    /\ file_at_start' = state_file
    /\ prev' = None
    /\ processed' = None
    /\ output' = None
    /\ writes' = 0
    /\ results' = [i \in 1..Len(RunProjects) |-> None]
    /\ IF ~config_ok
       THEN \* the configuration file cannot be opened
            /\ result' = "Err:IO"
            /\ rpc' = "exit"
            /\ history' = <<>>
            /\ loaded' = <<>>
       ELSE IF ~LoadHistory(state_file).ok
       THEN /\ result' = "Err:" \o LoadHistory(state_file).err
            /\ rpc' = "exit"
            /\ history' = <<>>
            /\ loaded' = <<>>
       ELSE /\ result' = "none"
            /\ rpc' = "select"
            /\ history' = LoadHistory(state_file).value
            /\ loaded' = LoadHistory(state_file).value
    /\ UNCHANGED <<state_file, overflow_checks>>
    /\ UNCHANGED notRun

\* run(): the previous Snapshot is chosen, or the run ends on the reference.
RunSelect ==
    /\ rpc = "select"
    /\ LET sel == SelectSnapshot(args, history, overflow_checks)
       IN IF sel.outcome = "ok"
          THEN /\ prev' = sel.snapshot
               /\ rpc' = "process"
               /\ UNCHANGED result
          ELSE /\ result' = sel.outcome
               /\ rpc' = "exit"
               /\ UNCHANGED prev
    /\ UNCHANGED <<state_file, args, results, processed, output, file_at_start,
                   loaded, writes, history, overflow_checks>>
    /\ UNCHANGED notRun

\* process_projects: the task of project i returns.
TaskReturns(i, r) ==
    /\ rpc = "process"
    /\ results[i] = None
    /\ results' = [results EXCEPT ![i] = Some(r)]
    /\ UNCHANGED <<state_file, args, rpc, prev, processed, output, result,
                   file_at_start, loaded, writes, history, overflow_checks>>
    /\ UNCHANGED notRun

\* process_projects: the worker thread is joined and the results aggregated;
\* run() returns the error if there is one.
RunJoin ==
    /\ rpc = "process"
    /\ \A i \in 1..Len(results) : IsSome(results[i])
    /\ LET agg == Aggregate([i \in 1..Len(results) |-> Unwrap(results[i])], BTreeNew, <<>>)
       IN /\ processed' = Some(agg)
          /\ IF agg.ok
             THEN rpc' = "save" /\ UNCHANGED result
             ELSE rpc' = "exit" /\ result' = agg.err
    /\ UNCHANGED <<state_file, args, prev, results, output, file_at_start,
                   loaded, writes, history, overflow_checks>>
    /\ UNCHANGED notRun

\* run(): history.push and history.to_file when the state is to be saved.
RunSave(created) ==
    /\ rpc = "save"
    /\ IF SavesState(args)
       THEN /\ history' = Push(history, Unwrap(Unwrap(processed).snapshot))
            /\ state_file' = ToFile(state_file, history', created)
            /\ writes' = IF created THEN writes + 1 ELSE writes
            /\ IF created
               THEN rpc' = "output" /\ UNCHANGED result
               ELSE rpc' = "exit" /\ result' = "Err:IO"
       ELSE /\ created
            /\ rpc' = "output"
            /\ UNCHANGED <<history, state_file, writes, result>>
    /\ UNCHANGED <<args, prev, results, processed, output, file_at_start,
                   loaded, overflow_checks>>
    /\ UNCHANGED notRun

\* run(): the ChangeLog is filled and printed.
RunOutput ==
    /\ rpc = "output"
    /\ output' = Some(Unwrap(processed).entries)
    /\ result' = "Ok"
    /\ rpc' = "exit"
    /\ UNCHANGED <<state_file, args, prev, results, processed, file_at_start,
                   loaded, writes, history, overflow_checks>>
    /\ UNCHANGED notRun

NextRun ==
    \/ \E a \in RunArgs, config_ok \in BOOLEAN : RunStart(a, config_ok)
    \/ RunSelect
    \/ \E i \in 1..Len(RunProjects) :
          \E r \in TaskResults(RunProjects[i]) : TaskReturns(i, r)
    \/ RunJoin
    \/ \E created \in BOOLEAN : RunSave(created)
    \/ RunOutput

SpecRun == InitRun /\ [][NextRun]_vars

\* -------------------------------------------------------- claims on SpecRun

TaskFailed(i) == IsSome(results[i]) /\ ~Unwrap(results[i]).ok

AnyTaskFailed == \E i \in 1..Len(results) : TaskFailed(i)

AllTasksSucceeded ==
    \A i \in 1..Len(results) : IsSome(results[i]) /\ Unwrap(results[i]).ok

\* The origin of the failed task that comes first in the configuration.
FirstFailed ==
    RunProjects[CHOOSE i \in 1..Len(results) :
                    TaskFailed(i) /\ \A j \in 1..(i - 1) : ~TaskFailed(j)]

\* C6: the state file is written only once every repository task has
\* returned success; when a task returns an error, run() returns that error
\* and there is no history push, no write of the state file and no output.
C6_FailFastBeforeAnyWrite ==
    /\ writes > 0 => AllTasksSucceeded
    /\ AnyTaskFailed =>
          /\ writes = 0
          /\ state_file = file_at_start
          /\ history = loaded
          /\ output = None
          /\ rpc \in {"process", "exit"}
          /\ rpc = "exit" =>
                /\ result = "Err:Git"
                /\ Unwrap(processed).failed = FirstFailed

\* C6, the case: a run asked to save its state ends on the error of the
\* second task, the first having succeeded.
C6_Witness ==
    /\ rpc = "exit" /\ args.save_state /\ result = "Err:Git"
    /\ ~TaskFailed(1) /\ TaskFailed(2)

\* A run has started and found its configuration.
RunLoaded == rpc # "exit" \/ result \notin {"none", "Err:IO"}

\* The run has settled its snapshot reference.
PastSelect == RunLoaded /\ rpc # "select"

\* The reference of the command line names no entry of the loaded history.
ReferenceMisses ==
    /\ ~args.no_state
    /\ IsSome(args.from_snapshot)
    /\ LET ref == Unwrap(args.from_snapshot)
       IN IF ref.kind = "index"
          THEN ref.index >= Len(loaded)
          ELSE \A i \in 1..Len(loaded) : loaded[i].hash # ref.text

NoTaskRan == \A i \in 1..Len(results) : results[i] = None

\* C7: with state enabled, a from_snapshot index at or past the history's
\* length, or a hash the history does not hold, ends run() on a
\* snapshot-reference error before any repository is processed, with no write
\* and no output.
C7_MissingReferenceIsAnError ==
    (PastSelect /\ ReferenceMisses) =>
        /\ rpc = "exit"
        /\ result \in {"Err:SnapshotDoesntExist", "Err:InvalidSnapshotRef"}
        /\ NoTaskRan
        /\ writes = 0
        /\ state_file = file_at_start
        /\ output = None

\* C7, for hashes: a hash the history does not hold is SnapshotDoesntExist.
C7_MissingHashIsAnError ==
    (PastSelect /\ ReferenceMisses /\ Unwrap(args.from_snapshot).kind = "hash") =>
        /\ rpc = "exit"
        /\ result = "Err:SnapshotDoesntExist"
        /\ NoTaskRan /\ writes = 0 /\ output = None

\* C7, the case: an index past the end of a history of two entries.
C7_Witness ==
    /\ PastSelect /\ ReferenceMisses
    /\ Len(loaded) = 2
    /\ Unwrap(args.from_snapshot).kind = "index"

\* C9: the history is loaded empty only from an absent state file; a state
\* file that is there and malformed ends the run on a ConfigurationError, and
\* the run leaves that file as it is.
C9_MalformedStateFileIsFatal ==
    RunLoaded =>
        /\ loaded = <<>> => file_at_start.kind = "absent"
        /\ file_at_start.kind = "malformed" =>
              /\ rpc = "exit"
              /\ result = "Err:Configuration"
              /\ state_file = file_at_start

\* C9, the case: a run over a malformed state file has ended.
C9_Witness == RunLoaded /\ file_at_start.kind = "malformed" /\ rpc = "exit"

\* C10: without save_state a run never touches the state file; with it, the
\* file is rewritten at most once, after every task has returned and the
\* results are joined, and then holds the whole history: the loaded one, or
\* the loaded one with the run's Snapshot appended.  A run that ends Ok with
\* save_state has rewritten the file exactly once.
C10_SavedOnlyOnRequest ==
    /\ writes <= 1
    /\ writes = 0 => state_file = file_at_start
    /\ ~args.save_state => writes = 0
    /\ writes = 1 =>
          /\ args.save_state
          /\ AllTasksSucceeded
          /\ IsSome(processed)
          /\ state_file = [kind |-> "valid", snapshots |-> history]
          /\ \/ history = loaded
             \/ history = Append(loaded, Unwrap(Unwrap(processed).snapshot))
    /\ (rpc = "exit" /\ result = "Ok" /\ args.save_state) => writes = 1

\* C10, the case: a saving run that loaded one entry and appended a second.
C10_Witness ==
    /\ rpc = "exit" /\ result = "Ok" /\ args.save_state /\ writes = 1
    /\ Len(loaded) = 1 /\ Len(history) = 2

\* C10, the other case: a run without save_state ended Ok over a state file
\* that holds a history.
C10_WitnessUntouched ==
    /\ rpc = "exit" /\ result = "Ok" /\ ~args.save_state
    /\ file_at_start.kind = "valid" /\ state_file = file_at_start

\* ================================================================= SpecPar
\* process_projects: a spawned thread runs one task per configured repository
\* on a thread pool; every task sends its progress bar on a channel; the
\* coordinator takes the bars from the channel, adds them to the
\* MultiProgress, waits for the bars and the thread, and aggregates.

\* The configurations: n repositories of distinct origins.
ParConfigs == { [i \in 1..n |-> <<i>>] : n \in 0..MaxProjects }

\* What the task of a repository returns: its result, or an error raised when
\* the repository is opened or cloned, or while it is fetched and walked.
ParTaskResults(origin) ==
    { [at |-> "none", result |-> TaskOk(origin, cs, OidToString(1))] :
          cs \in TaskChangeSets(origin) }
      \cup { [at |-> step, result |-> TaskErr(origin)] : step \in {"open", "work"} }

\* The worker closure sends the bar only after the repository is opened.
WorkerStepsSendLate == <<"bar", "open", "send", "work">>

\* The steps of the worker closure, in program order: the bar is created,
\* sent on the channel, the repository is opened or cloned, then fetched and
\* walked.
WorkerSteps == <<"bar", "send", "open", "work">>

\* A coordinator that takes one handle too few.
ProjectsCountShort(projects) == Len(projects) - 1

\* let projects_count = config.projects.len().
ProjectsCount(projects) == Len(projects)

\* A collect that keeps the results in the order the tasks returned.
CollectAsFinished(res, order) == [k \in 1..Len(order) |-> Unwrap(res[order[k]])]

\* par_iter().map_with(..).collect::<Vec<_>>(): an indexed parallel iterator
\* collects in the order of its items.
Collect(res, order) == [i \in 1..Len(res) |-> Unwrap(res[i])]

\* The task of project i has returned.
WorkerDone(i) == IsSome(slots[i])

\* The tasks that hold a thread of the pool.
WorkersRunning == {i \in 1..Len(wpos) : wpos[i] > 0 /\ ~WorkerDone(i)}

\* The step task i performs next.
WorkerAt(i, step) ==
    /\ i \in 1..Len(wpos)
    /\ ~WorkerDone(i)
    /\ wpos[i] + 1 <= Len(WorkerSteps)
    /\ WorkerSteps[wpos[i] + 1] = step

\* A ProgressBar draws to the target it has when it draws: the terminal
\* until MultiProgress::add makes the MultiProgress its target.  Only a draw
\* that goes to the MultiProgress tells it that the bar is finished.
DrawsToMulti(added, i) == i \in Range(added)

\* The bars the MultiProgress knows finished, after bar i finishes: by
\* bar.finish(), or by the drop of the last handle of a bar that was never
\* marked finished.
AfterFinish(done, added, i) == IF DrawsToMulti(added, i) THEN done \cup {i} ELSE done

\* MultiProgress::join_and_clear returns when it holds no bar, or when every
\* bar it holds has told it that it is finished.
RenderDone(added, done) == Range(added) \subseteq done

InitPar ==
    /\ par_projects \in ParConfigs
    /\ par_threads \in 1..MaxThreads
    /\ par_task \in { t \in UNION {[1..n -> UNION {ParTaskResults(<<i>>) : i \in 1..n}] :
                                      n \in 0..MaxProjects} :
                        /\ Len(t) = Len(par_projects)
                        /\ \A i \in 1..Len(t) : t[i] \in ParTaskResults(par_projects[i]) }
    /\ wpos = [i \in 1..Len(par_projects) |-> 0]
    /\ chan = <<>>
    /\ bars = <<>>
    /\ cpc = "take"
    /\ slots = [i \in 1..Len(par_projects) |-> None]
    /\ finished = <<>>
    /\ par_return = None
    /\ bar_status = [i \in 1..Len(par_projects) |-> "none"]
    /\ bar_done = {}
    /\ WalkOff /\ SnapOff /\ HistOff /\ RunOff /\ LogOff /\ ExtractOff

\* A pool thread picks the task of project i: ProgressBar::new.
WorkerBar(i) ==
    /\ WorkerAt(i, "bar")
    /\ wpos[i] = 0 => Cardinality(WorkersRunning) < par_threads
    /\ wpos' = [wpos EXCEPT ![i] = @ + 1]
    /\ bar_status' = [bar_status EXCEPT ![i] = "live"]
    /\ UNCHANGED <<par_projects, par_threads, par_task, chan, bars, cpc, slots,
                   finished, par_return, bar_done>>
    /\ UNCHANGED notPar

\* tx_bars.send(bar.clone()).
WorkerSend(i) ==
    /\ WorkerAt(i, "send")
    /\ wpos[i] > 0
    /\ chan' = Append(chan, i)
    /\ wpos' = [wpos EXCEPT ![i] = @ + 1]
    /\ UNCHANGED <<par_projects, par_threads, par_task, bars, cpc, slots,
                   finished, par_return, bar_status, bar_done>>
    /\ UNCHANGED notPar

\* Project::from_cache, else Project::from_remote(..)?.  On the error the
\* closure returns and its bar handle is dropped, the bar not finished: the
\* bar's state is dropped, and reports itself finished, once no handle is
\* left in the channel or with the coordinator.
WorkerOpen(i) ==
    /\ WorkerAt(i, "open")
    /\ wpos[i] > 0
    /\ wpos' = [wpos EXCEPT ![i] = @ + 1]
    /\ IF par_task[i].at = "open"
       THEN /\ slots' = [slots EXCEPT ![i] = Some(par_task[i].result)]
            /\ finished' = Append(finished, i)
            /\ bar_status' = [bar_status EXCEPT ![i] = "dropped"]
            /\ bar_done' = AfterFinish(bar_done, bars, i)
       ELSE UNCHANGED <<slots, finished, bar_status, bar_done>>
    /\ UNCHANGED <<par_projects, par_threads, par_task, chan, bars, cpc, par_return>>
    /\ UNCHANGED notPar

\* The fetch loop and report_branches; the closure returns: after
\* bar.finish() with its result, or on an error with the bar not finished.
WorkerWork(i) ==
    /\ WorkerAt(i, "work")
    /\ wpos[i] > 0
    /\ wpos' = [wpos EXCEPT ![i] = @ + 1]
    /\ slots' = [slots EXCEPT ![i] = Some(par_task[i].result)]
    /\ finished' = Append(finished, i)
    /\ bar_status' = [bar_status EXCEPT ![i] =
                         IF par_task[i].at = "none" THEN "finished" ELSE "dropped"]
    /\ bar_done' = AfterFinish(bar_done, bars, i)
    /\ UNCHANGED <<par_projects, par_threads, par_task, chan, bars, cpc, par_return>>
    /\ UNCHANGED notPar

\* rx_bars.iter().take(projects_count): one more bar is received and added,
\* and the handle received is dropped.  It is the last handle of a bar whose
\* task returned an error, and that bar then reports itself finished; a bar
\* that was finished before it was added reports nothing more.
CoordTake ==
    /\ cpc = "take"
    /\ Len(bars) < ProjectsCount(par_projects)
    /\ chan # <<>>
    /\ bars' = Append(bars, Head(chan))
    /\ chan' = Tail(chan)
    /\ bar_done' = IF bar_status[Head(chan)] = "dropped"
                   THEN AfterFinish(bar_done, bars', Head(chan))
                   ELSE bar_done
    /\ UNCHANGED <<par_projects, par_threads, par_task, wpos, cpc, slots,
                   finished, par_return, bar_status>>
    /\ UNCHANGED notPar

\* take(projects_count) is exhausted: the coordinator enters join_and_clear.
CoordRender ==
    /\ cpc = "take"
    /\ Len(bars) >= ProjectsCount(par_projects)
    /\ cpc' = "render"
    /\ UNCHANGED <<par_projects, par_threads, par_task, wpos, chan, bars, slots,
                   finished, par_return, bar_status, bar_done>>
    /\ UNCHANGED notPar

\* bars.join_and_clear() returns.
CoordRenderEnds ==
    /\ cpc = "render"
    /\ RenderDone(bars, bar_done)
    /\ cpc' = "join"
    /\ UNCHANGED <<par_projects, par_threads, par_task, wpos, chan, bars, slots,
                   finished, par_return, bar_status, bar_done>>
    /\ UNCHANGED notPar

\* handle.join() returns once every task returned.
CoordJoin ==
    /\ cpc = "join"
    /\ \A i \in 1..Len(slots) : WorkerDone(i)
    /\ cpc' = "aggregate"
    /\ UNCHANGED <<par_projects, par_threads, par_task, wpos, chan, bars, slots,
                   finished, par_return, bar_status, bar_done>>
    /\ UNCHANGED notPar

\* The loop over the collected results, and builder.build().
CoordAggregate ==
    /\ cpc = "aggregate"
    /\ par_return' = Some(Aggregate(Collect(slots, finished), BTreeNew, <<>>))
    /\ cpc' = "fin"
    /\ UNCHANGED <<par_projects, par_threads, par_task, wpos, chan, bars, slots,
                   finished, bar_status, bar_done>>
    /\ UNCHANGED notPar

NextPar ==
    \/ \E i \in 1..Len(par_projects) : WorkerBar(i)
    \/ \E i \in 1..Len(par_projects) : WorkerSend(i)
    \/ \E i \in 1..Len(par_projects) : WorkerOpen(i)
    \/ \E i \in 1..Len(par_projects) : WorkerWork(i)
    \/ CoordTake
    \/ CoordRender
    \/ CoordRenderEnds
    \/ CoordJoin
    \/ CoordAggregate

SpecPar == InitPar /\ [][NextPar]_vars

\* The threads are scheduled fairly: a pool thread, or the coordinator, that
\* can take its next step eventually takes it.
SpecParFair ==
    /\ SpecPar
    /\ \A i \in 1..MaxProjects :
          /\ WF_vars(WorkerBar(i))
          /\ WF_vars(WorkerSend(i))
          /\ WF_vars(WorkerOpen(i))
          /\ WF_vars(WorkerWork(i))
    /\ WF_vars(CoordTake)
    /\ WF_vars(CoordRender)
    /\ WF_vars(CoordRenderEnds)
    /\ WF_vars(CoordJoin)
    /\ WF_vars(CoordAggregate)

\* -------------------------------------------------------- claims on SpecPar

\* The task of project i has performed a step that can fail or block on
\* repository I/O.
DidRepositoryIO(i) ==
    \E k \in 1..wpos[i] : WorkerSteps[k] \in {"open", "work"}

\* How many handles of project i are in the channel or with the coordinator.
HandlesOf(i) ==
    Cardinality({k \in 1..Len(chan) : chan[k] = i})
        + Cardinality({k \in 1..Len(bars) : bars[k] = i})

\* C11: a task has sent its handle before it performs any step that can fail
\* or block on repository I/O, it sends one handle only, and once the
\* coordinator has left the take loop it has added exactly one handle per
\* configured repository.
C11_HandleSentFirst ==
    /\ \A i \in 1..Len(par_projects) :
          /\ HandlesOf(i) <= 1
          /\ DidRepositoryIO(i) => HandlesOf(i) = 1
    /\ cpc # "take" =>
          /\ Len(bars) = Len(par_projects)
          /\ \A i \in 1..Len(par_projects) :
                Cardinality({k \in 1..Len(bars) : bars[k] = i}) = 1

\* C11, the case: the coordinator renders two bars, the task of the first
\* project having failed when it opened its repository.
C11_Witness ==
    /\ cpc = "render" /\ Len(par_projects) = 2
    /\ WorkerDone(1) /\ par_task[1].at = "open"

\* The first project, in configured order, whose task returns an error
\* (0 when every task succeeds).
FirstFailing ==
    IF \E i \in 1..Len(par_task) : ~par_task[i].result.ok
    THEN CHOOSE i \in 1..Len(par_task) :
            /\ ~par_task[i].result.ok
            /\ \A j \in 1..(i - 1) : par_task[j].result.ok
    ELSE 0

\* The change sets of the tasks of projects i..n, in configured order.
RECURSIVE ChangeSetsFrom(_)
ChangeSetsFrom(i) ==
    IF i > Len(par_task) THEN <<>>
    ELSE par_task[i].result.change_sets \o ChangeSetsFrom(i + 1)

\* The repository snapshots of the tasks of projects 1..i, by origin.
RECURSIVE RepositoriesUpTo(_)
RepositoriesUpTo(i) ==
    IF i = 0 THEN BTreeNew
    ELSE BTreeInsert(RepositoriesUpTo(i - 1), par_projects[i],
                     par_task[i].result.repo_snapshot)

\* C20: what process_projects returns is fixed by what the tasks return,
\* whatever the order they ran and returned in: the entries are the tasks'
\* entries in configured repository order with the Snapshot of all
\* repositories, or the error of the failing repository that comes first in
\* the configuration.
C20_ResultIndependentOfSchedule ==
    cpc = "fin" =>
        LET ret == Unwrap(par_return)
        IN IF FirstFailing = 0
           THEN /\ ret.ok
                /\ ret.entries = ChangeSetsFrom(1)
                /\ ret.snapshot = Some(Build(RepositoriesUpTo(Len(par_task))))
           ELSE /\ ~ret.ok
                /\ ret.err = par_task[FirstFailing].result.err
                /\ ret.failed = par_projects[FirstFailing]

\* C20, the case: both tasks succeeded and the second returned first.
C20_Witness ==
    /\ cpc = "fin" /\ finished = <<2, 1>> /\ Unwrap(par_return).ok

\* C20, the other case: both tasks failed and the second returned first.
C20_WitnessErrors ==
    /\ cpc = "fin" /\ finished = <<2, 1>> /\ FirstFailing = 1
    /\ ~par_task[2].result.ok

\* ================================================================= SpecLog
\* One ChangeLog: created with a list of grouping fields, then filled entry
\* by entry.  HierarchicalBuckets::Index is an IndexMap, kept as the sequence
\* of its <<key, child>> pairs in the map's own order; ::Bucket is a Vec.

\* CommitField.
CommitFields == {"scope", "branch", "origin", "commit-type"}

\* ChangeLogEntry::get.
EntryGet(entry, field) ==
    CASE field = "scope" ->
            IF IsSome(entry.message.scope) THEN Unwrap(entry.message.scope) ELSE ""
      [] field = "branch" -> entry.branch
      [] field = "origin" -> entry.origin
      [] field = "commit-type" -> CommitTypeAsStr(entry.message.ctype)

Bucket(items) == [kind |-> "Bucket", map |-> <<>>, items |-> items]

Index(map) == [kind |-> "Index", map |-> map, items |-> <<>>]

\* A ChangeLog whose root is an index whatever the fields.
ChangeLogNewIndex(fields) == Index(<<>>)

\* ChangeLog::new.
ChangeLogNew(fields) == IF fields = <<>> THEN Bucket(<<>>) ELSE Index(<<>>)

\* A helper that makes every new child a bucket.
NewChildBucket(keys) == Bucket(<<>>)

\* insert_helper: the child made for a key the index does not hold yet.
NewChild(keys) == IF keys = <<>> THEN Bucket(<<>>) ELSE Index(<<>>)

\* IndexMap::get_mut: the position of the key, 0 when the map does not hold it.
IndexMapFind(map, key) ==
    IF \E i \in 1..Len(map) : map[i][1] = key
    THEN CHOOSE i \in 1..Len(map) : map[i][1] = key
    ELSE 0

\* An insert that puts the new key in front.
IndexMapInsertFront(map, key, child) == << <<key, child>> >> \o map

\* IndexMap::insert of a key the map does not hold: the key goes last.
IndexMapInsert(map, key, child) == Append(map, <<key, child>>)

\* Vec::reverse.
RECURSIVE Reverse(_)
Reverse(seq) == IF seq = <<>> THEN <<>> ELSE Reverse(Tail(seq)) \o << seq[1] >>

Front(seq) == SubSeq(seq, 1, Len(seq) - 1)

InsertOk(node) == [ok |-> TRUE, err |-> "none", node |-> node]

InsertErr(node) == [ok |-> FALSE, err |-> "Err:InvalidIndex", node |-> node]

\* HierarchicalBuckets::insert_helper: keys.pop() takes the last key.  On an
\* error the tree is as it was.
RECURSIVE InsertHelper(_, _, _)
InsertHelper(node, keys, value) ==
    IF keys # <<>> /\ node.kind = "Index"
    THEN LET key == keys[Len(keys)]
             rest == Front(keys)
             at == IndexMapFind(node.map, key)
         IN IF at # 0
            THEN LET sub == InsertHelper(node.map[at][2], rest, value)
                 IN IF sub.ok
                    THEN InsertOk(Index([node.map EXCEPT ![at] = <<key, sub.node>>]))
                    ELSE InsertErr(node)
            ELSE LET sub == InsertHelper(NewChild(rest), rest, value)
                 IN IF sub.ok
                    THEN InsertOk(Index(IndexMapInsert(node.map, key, sub.node)))
                    ELSE InsertErr(node)
    ELSE IF keys = <<>> /\ node.kind = "Bucket"
    THEN InsertOk(Bucket(Append(node.items, value)))
    ELSE InsertErr(node)

\* HierarchicalBuckets::insert.
BucketsInsert(node, keys, value) == InsertHelper(node, Reverse(keys), value)

\* ChangeLog::insert: the entry's keys, one per grouping field.
EntryKeys(fields, entry) == [i \in 1..Len(fields) |-> EntryGet(entry, fields[i])]

ChangeLogInsert(fields, node, entry) == BucketsInsert(node, EntryKeys(fields, entry), entry)

\* The parsed messages of the entries: a feature without scope, a fix and a
\* feature in scope api.
LogMessage(ctype, scope) ==
    [ctype |-> CommitTypeFromStr(ctype), scope |-> scope, trailers |-> <<>>]

\* The entries a run inserts.
LogEntries ==
    { [origin |-> <<1>>, branch |-> BranchMain, message |-> LogMessage("feat", None)],
      [origin |-> <<1>>, branch |-> BranchMain, message |-> LogMessage("fix", Some("api"))],
      [origin |-> <<1>>, branch |-> BranchFeature, message |-> LogMessage("feat", Some("api"))],
      [origin |-> <<2>>, branch |-> BranchMain, message |-> LogMessage("feat", None)] }

\* The group_by lists of the command line: any fields, repeated or not.
GroupBys == UNION {[1..n -> CommitFields] : n \in 0..MaxFields}

InitLog ==
    /\ group_by \in GroupBys
    /\ change_log = ChangeLogNew(group_by)
    /\ log_inserted = <<>>
    /\ log_err = "none"
    /\ WalkOff /\ SnapOff /\ HistOff /\ RunOff /\ ParOff /\ ExtractOff

\* change_log.insert(entry).  run() returns at the first error.
LogInsert(entry) ==
    /\ log_err = "none"
    /\ Len(log_inserted) < MaxEntries
    /\ LET r == ChangeLogInsert(group_by, change_log, entry)
       IN /\ change_log' = r.node
          /\ log_err' = r.err
    /\ log_inserted' = Append(log_inserted, entry)
    /\ UNCHANGED group_by
    /\ UNCHANGED notLog

NextLog == \E entry \in LogEntries : LogInsert(entry)

SpecLog == InitLog /\ [][NextLog]_vars

\* -------------------------------------------------------- claims on SpecLog

\* Every leaf list of the tree is at depth d exactly, and every node above
\* is an index.
RECURSIVE DepthIs(_, _)
DepthIs(node, d) ==
    IF d = 0 THEN node.kind = "Bucket"
    ELSE /\ node.kind = "Index"
         /\ \A i \in 1..Len(node.map) : DepthIs(node.map[i][2], d - 1)

\* The leaf list reached from a node by the keys, in order; None when a key
\* is missing or the path ends on an index.
RECURSIVE LeafAt(_, _)
LeafAt(node, keys) ==
    IF keys = <<>>
    THEN IF node.kind = "Bucket" THEN Some(node.items) ELSE None
    ELSE IF node.kind = "Index" /\ IndexMapFind(node.map, keys[1]) # 0
    THEN LeafAt(node.map[IndexMapFind(node.map, keys[1])][2], Tail(keys))
    ELSE None

\* How many entries the leaves of the tree hold.
RECURSIVE LeafCount(_)
RECURSIVE LeafCountOfMap(_)
LeafCount(node) ==
    IF node.kind = "Bucket" THEN Len(node.items) ELSE LeafCountOfMap(node.map)
LeafCountOfMap(map) ==
    IF map = <<>> THEN 0 ELSE LeafCount(map[1][2]) + LeafCountOfMap(Tail(map))

\* C12: after any inserts into a ChangeLog of N grouping fields, every leaf
\* list is at depth N and every node above is an index; each inserted entry
\* is in the leaf its N key values lead to, and nowhere else; with N = 0 the
\* root is one flat list of all entries.
C12_DepthConsistent ==
    /\ DepthIs(change_log, Len(group_by))
    /\ \A i \in 1..Len(log_inserted) :
          LET leaf == LeafAt(change_log, EntryKeys(group_by, log_inserted[i]))
          IN IsSome(leaf) /\ log_inserted[i] \in Range(Unwrap(leaf))
    /\ LeafCount(change_log) = Len(log_inserted)
    /\ group_by = <<>> => change_log = Bucket(log_inserted)

\* C12, the case: three entries under two fields, in three leaves.
C12_Witness ==
    /\ Len(group_by) = 2 /\ Len(log_inserted) = 3
    /\ Len(change_log.map) = 2
    /\ \E i \in 1..2 : Len(change_log.map[i][2].map) = 2

\* The distinct values of a sequence, in order of first appearance.
RECURSIVE FirstSeen(_)
FirstSeen(seq) ==
    IF seq = <<>> THEN <<>>
    ELSE LET front == FirstSeen(Front(seq))
             last == seq[Len(seq)]
         IN IF last \in Range(front) THEN front ELSE Append(front, last)

\* The entries of a sequence whose value of the field is the key, in order.
RECURSIVE WithKey(_, _, _)
WithKey(es, field, key) ==
    IF es = <<>> THEN <<>>
    ELSE (IF EntryGet(es[1], field) = key THEN << es[1] >> ELSE <<>>)
            \o WithKey(Tail(es), field, key)

\* The tree that groups the entries by the fields, keys in order of first
\* appearance and entries in the order given.
RECURSIVE Grouped(_, _)
Grouped(es, fields) ==
    IF fields = <<>> THEN Bucket(es)
    ELSE LET keys == FirstSeen([i \in 1..Len(es) |-> EntryGet(es[i], fields[1])])
         IN Index([k \in 1..Len(keys) |->
                      <<keys[k], Grouped(WithKey(es, fields[1], keys[k]), Tail(fields))>>])

\* C13: at every level of the tree the keys are in first-insertion order,
\* and the entries of a leaf are in insertion order.
C13_FirstInsertionOrder == change_log = Grouped(log_inserted, group_by)

\* C13, the case: fields [commit-type], entries feat, fix, feat: the keys are
\* feat (two entries) then fix (one entry).
C13_Witness ==
    /\ group_by = <<"commit-type">>
    /\ [i \in 1..Len(log_inserted) |-> EntryGet(log_inserted[i], "commit-type")]
          = <<"feat", "fix", "feat">>
    /\ Len(change_log.map) = 2
    /\ change_log.map[1][1] = "feat" /\ Len(change_log.map[1][2].items) = 2
    /\ change_log.map[2][1] = "fix" /\ Len(change_log.map[2][2].items) = 1

\* C14: no insert into a ChangeLog made by ChangeLog::new returns
\* InvalidIndex, whatever the field list and the entries.
C14_InvalidIndexUnreachable == log_err = "none"

\* C14, the case: a field twice in the list, and entries with and without
\* scope inserted.
C14_Witness ==
    /\ group_by = <<"scope", "scope">>
    /\ Len(log_inserted) = 3
    /\ \E i \in 1..3 : ~IsSome(log_inserted[i].message.scope)
    /\ \E i \in 1..3 : IsSome(log_inserted[i].message.scope)

\* ============================================================= SpecExtract
\* Project::extract_messages over a walker: any history of up to MaxCommits
\* commits, any messages, with or without a team filter.

\* The histories: commit 1 is the root, a later commit has one or two
\* parents among the commits before it.
ExGraphs ==
    { g \in UNION {[1..n -> SUBSET (1..MaxCommits)] : n \in 1..MaxCommits} :
        /\ g[1] = {}
        /\ \A c \in 2..Len(g) :
              g[c] # {} /\ g[c] \subseteq 1..(c - 1) /\ Cardinality(g[c]) <= 2 }

RawWith(trailers) ==
    [conventional |-> TRUE, ctype |-> "feat", scope |-> None, trailers |-> trailers]

\* Commit::message(): None for a message that is not UTF-8; a message that
\* is not conventional; conventional messages without trailers, with the
\* trailer team: a, with Team: a, and with reviewer: a before team: b.
ExMessages ==
    { None, Some(RawWip), Some(RawFeat),
      Some(RawWith(<< <<"team", "a">> >>)),
      Some(RawWith(<< <<"Team", "a">> >>)),
      Some(RawWith(<< <<"reviewer", "a">>, <<"team", "b">> >>)) }

\* The team filters of the configuration.
ExTeams == {None, Some("a"), Some("b")}

InitExtract ==
    /\ ex_parents \in ExGraphs
    /\ ex_message \in UNION {[1..n -> ExMessages] : n \in 1..MaxCommits}
    /\ Len(ex_message) = Len(ex_parents)
    /\ ex_team \in ExTeams
    /\ ex_hidden \in {{}, {1}}
    /\ ex_out = None
    /\ WalkOff /\ SnapOff /\ HistOff /\ RunOff /\ ParOff /\ LogOff

\* The walker of the newest commit, as build_walker makes it.
ExWalk == Revwalk(ex_parents, Len(ex_parents), ex_hidden)

\* project.extract_messages(walker).
Extract ==
    /\ ex_out = None
    /\ ex_out' = Some(ExtractMessages(ex_parents, ex_message, ex_team, ExWalk))
    /\ UNCHANGED <<ex_parents, ex_message, ex_team, ex_hidden>>
    /\ UNCHANGED notExtract

NextExtract == Extract

SpecExtract == InitExtract /\ [][NextExtract]_vars

\* ---------------------------------------------------- claims on SpecExtract

\* The message of commit c parses.
Parses(c) == IsSome(ex_message[c]) /\ IsSome(ParseMessage(Unwrap(ex_message[c])))

\* The trailers of commit c's message hold the entry team: t.
HasTeam(c, t) ==
    \E i \in 1..Len(Unwrap(ex_message[c]).trailers) :
        Unwrap(ex_message[c]).trailers[i] = <<"team", t>>

\* The commits the returned messages were parsed from, in order.
Emitted == [i \in 1..Len(Unwrap(ex_out).messages) |-> Unwrap(ex_out).messages[i].commit]

\* The position of a commit in the walk.
WalkPosition(c) == CHOOSE k \in 1..Len(ExWalk) : ExWalk[k] = c

\* C18: every walked commit with more than one parent is in newSentinels,
\* whatever its message; a commit whose message is missing or does not parse
\* yields no message, and the walk goes on: every later commit whose message
\* parses and passes the filter is still emitted.
C18_MergesAlwaysSentinels ==
    IsSome(ex_out) =>
        /\ \A c \in Range(ExWalk) :
              Cardinality(ex_parents[c]) > 1 => c \in Unwrap(ex_out).new_sentinels
        /\ Unwrap(ex_out).new_sentinels \subseteq Range(ExWalk)
        /\ \A c \in Range(ExWalk) : ~Parses(c) => c \notin Range(Emitted)
        /\ \A c \in Range(ExWalk) :
              (Parses(c) /\ ex_team = None) => c \in Range(Emitted)

\* C18, the case: a merge commit whose message does not parse is walked
\* first; it is a sentinel, and a commit after it is emitted.
C18_Witness ==
    /\ IsSome(ex_out)
    /\ Len(ExWalk) >= 2
    /\ Cardinality(ex_parents[ExWalk[1]]) > 1
    /\ ~Parses(ExWalk[1])
    /\ ExWalk[1] \in Unwrap(ex_out).new_sentinels
    /\ Emitted # <<>>

C21_AlwaysTerminates == <>(cpc = "fin")

\* C21, the tasks that return an error: when every task returns an error,
\* its bar not finished, process_projects terminates.
C21_TerminatesWhenAllFail ==
    (\A i \in 1..Len(par_task) : par_task[i].at # "none") ~> (cpc = "fin")

\* C21, the coordinator receives its handles: the take loop always ends.
C21_TakeLoopEnds == <>(cpc # "take")

\* The render loop waits on a bar that finished before it was added, with
\* every task returned.
RenderStuck ==
    /\ cpc = "render"
    /\ \A i \in 1..Len(slots) : WorkerDone(i)
    /\ ~RenderDone(bars, bar_done)

\* ============================================================== SpecStream
\* Two runs of the tool over one state file, each pushing the Snapshot it
\* built.  Origins and branch names are the configuration's strings, of any
\* length; a commit hash has one length.

\* The bytes a configured name is made of.
NameBytes == {1, 2}

\* RepositoryOrigin::from_str, BranchName::from_str: any non-empty string.
ConfigNames == UNION { [1..n -> NameBytes] : n \in 1..MaxNameLen }

\* The branches of one repository and their heads: none, or one branch.
StreamBranches ==
    {{}} \cup { {<<b, h>>} : b \in ConfigNames, h \in SnapHeads }

\* What the tasks of one run return: no repository, or one.
StreamResults ==
    {{}} \cup { {[origin |-> o, branches |-> bs]} : o \in ConfigNames, bs \in StreamBranches }

\* SnapshotHistory::new().
InitStream ==
    /\ history = <<>>
    /\ overflow_checks = FALSE
    /\ lookup = None
    /\ WalkOff /\ SnapOff /\ RunOff /\ ParOff /\ LogOff /\ ExtractOff

\* One run with --save-state: the builder is filled with the run's results,
\* build() hashes them and history.push takes the Snapshot.  The first run
\* pushes onto the empty history, the second onto what the first left.
StreamPush(rs) ==
    /\ IsSome(lookup) => Unwrap(lookup).before = <<>>
    /\ LET snap == Build(AddResults(BTreeNew, rs))
       IN /\ history' = Push(history, snap)
          /\ lookup' = Some([op |-> "push", arg |-> snap, before |-> history])
    /\ UNCHANGED overflow_checks
    /\ UNCHANGED notHist

NextStream == \E rs \in StreamResults : StreamPush(rs)

SpecStream == InitStream /\ [][NextStream]_vars

\* ----------------------------------------------------- claims on SpecStream

\* The second run's push: a Snapshot arrives at a history with a last entry.
SecondPush == IsSome(lookup) /\ Unwrap(lookup).before # <<>>

\* C22: two Snapshots whose repository/branch/head mappings differ never feed
\* the hasher the same byte stream, so a push never discards a Snapshot whose
\* content differs from the last entry's.
C22_StreamInjective ==
    SecondPush =>
        LET before == Unwrap(lookup).before
            last == before[Len(before)]
            snap == Unwrap(lookup).arg
        IN snap.repositories # last.repositories =>
              /\ RepositoriesBytes(snap.repositories) # RepositoriesBytes(last.repositories)
              /\ history = Append(before, snap)

\* C22, the other direction: a Snapshot with the last entry's content is
\* discarded.
C22_SameContentDiscarded ==
    SecondPush =>
        LET before == Unwrap(lookup).before
        IN Unwrap(lookup).arg.repositories = before[Len(before)].repositories =>
              history = before

\* A push that discarded a Snapshot whose content is not the last entry's.
DiscardedDifferent ==
    /\ SecondPush
    /\ Unwrap(lookup).arg.repositories # history[Len(history)].repositories
    /\ history = Unwrap(lookup).before

====
